---- MODULE Spec2Model ----
(***************************************************************************)
(* A model of springdata_sqlalchemy.repository: CrudRepository and         *)
(* PagingRepository over one SQLAlchemy session and one table.             *)
(*                                                                         *)
(* The table holds rows [id, data] (tests/fixtures/orm.py: DummyOrm).      *)
(* db is the committed table that every session sees; tx is the table as   *)
(* the repository's own session sees it (db plus the statements it has     *)
(* executed and not committed); new and del are the session's unit of      *)
(* work: the objects added or marked deleted and not flushed yet; held is   *)
(* its identity map: the objects it has loaded and not expired since.      *)
(***************************************************************************)
EXTENDS Integers, Sequences, FiniteSets, TLC

\* Bounds of the model.
MaxId == 2
MaxLen == 2
MaxPending == 1
MaxOrders == 2
MaxOffset == 1
MaxPageSize == 2
MaxWrites == 1

\* Python's None where an id is expected (primary keys are 1..MaxId).
None == 0

Ids == 1 .. MaxId
Data == {"a", "b"}
Properties == {"id", "data"}
Directions == {"ASC", "DESC"}

\* The mapped types a repository may be bound to, by their primary-key columns.
MappedTypes ==
  {<<>>, <<"id">>, <<"id", "data">>}

Rows == [id : Ids, data : Data]

\* An entity as the caller hands it over, its primary key set: a new
\* (transient) object, or an object the session already holds (persistent).
Entities == [id : Ids, data : Data, st : {"transient", "persistent"}]

\* None where an entity is expected.
NullEntity == [id |-> None, data |-> "", st |-> "null"]

VARIABLES
  pk_columns,  \* the primary-key columns of the bound type; <<>> before construction
  repo,        \* "none" | "ready": whether a repository instance exists
  db,          \* committed rows
  tx,          \* rows as the session sees them
  inTx,        \* the session's transaction holds uncommitted statements
  new,         \* entities added to the session, not flushed (in add order)
  del,         \* ids of the persistent entities marked deleted, not flushed
  held,        \* the loaded, unexpired objects of the session, as rows
  frame,       \* the call in flight between two of its session calls
  last         \* the last call: operation, arguments, outcome, result

vars == <<pk_columns, repo, db, tx, inTx, new, del, held, frame, last>>

----------------------------------------------------------------------------
\* Helpers on tables and sequences.

RowIds(rows) == {r.id : r \in rows}

RowOf(rows, i) == CHOOSE r \in rows : r.id = i

Put(rows, i, d) == {r \in rows : r.id # i} \cup {[id |-> i, data |-> d]}

Range(s) == {s[k] : k \in 1 .. Len(s)}

SeqsUpTo(S, n) == UNION {[1 .. k -> S] : k \in 0 .. n}

\* Python: x is None or any(e is None for e in x).
ListArgs(S) == {[none |-> TRUE, items |-> <<>>]}
                 \cup {[none |-> FALSE, items |-> s] : s \in SeqsUpTo(S, MaxLen)}

----------------------------------------------------------------------------
\* The session (sqlalchemy.orm.Session), as far as the repository drives it.
\* A world is the state a handler threads through its statements; err is the
\* exception in flight: once it is set the remaining statements are skipped.

World ==
  [db |-> db, tx |-> tx, inTx |-> inTx, new |-> new, del |-> del, held |-> held,
   err |-> "ok", commits |-> 0, calls |-> 0]

Raise(w, e) == [w EXCEPT !.err = e]

\* One more session method entered (none is once an exception is in flight).
Called(w) == IF w.err # "ok" THEN w ELSE [w EXCEPT !.calls = w.calls + 1]

\* A failed flush rolls the transaction back: uncommitted statements are
\* undone, pending objects are expunged, deleted marks are dropped, every
\* object is expired.
Rollback(w, e) ==
  [w EXCEPT !.tx = w.db, !.inTx = FALSE, !.new = <<>>, !.del = {}, !.held = {},
            !.err = e]

\* The unit of work, one entity at a time in add order: UPDATE for a persistent
\* entity (one per object, with the attributes given last; none when it is
\* marked deleted, or when its attributes are those the session has loaded;
\* StaleDataError when its row is gone), INSERT for a
\* transient one (an id that a deleted-marked object holds is switched to an
\* UPDATE of that row; any other id the table already holds is a key conflict,
\* reported as IntegrityError).
RECURSIVE FlushEntries(_, _, _, _, _)
FlushEntries(rows, dl, loaded, pending, done) ==
  IF pending = <<>> THEN [err |-> "ok", rows |-> rows, del |-> dl, flushed |-> done]
  ELSE
    LET e == Head(pending)
        i == e.id
        row == [id |-> i, data |-> e.data]
        again == \E k \in 2 .. Len(pending) :
                   pending[k].st = "persistent" /\ pending[k].id = i
    IN  IF e.st = "persistent" /\ (i \in dl \/ again)
          THEN FlushEntries(rows, dl, loaded, Tail(pending), done)
        ELSE IF e.st = "persistent" /\ row \in loaded
          THEN FlushEntries(rows, dl, loaded, Tail(pending), done)
        ELSE IF e.st = "persistent" /\ i \notin RowIds(rows)
          THEN [err |-> "StaleDataError", rows |-> rows, del |-> dl, flushed |-> done]
        ELSE IF e.st = "transient" /\ i \in RowIds(rows) /\ i \notin dl
          THEN [err |-> "IntegrityError", rows |-> rows, del |-> dl, flushed |-> done]
        ELSE FlushEntries(Put(rows, i, e.data), dl \ {i}, loaded, Tail(pending),
                          Append(done, row))

\* The objects the session holds loaded after a flush: a flushed object carries
\* the attributes written last, a deleted one is gone.
HeldAfter(loaded, done, dl) ==
  LET n == Len(done)
      final == {done[k] : k \in {j \in 1 .. n : \A m \in j + 1 .. n : done[m].id # done[j].id}}
  IN  {h \in loaded : h.id \notin RowIds(final) /\ h.id \notin dl}
        \cup {r \in final : r.id \notin dl}

\* Session.flush: writes the pending inserts and updates, then the deletes.
Flush(w) ==
  IF w.err # "ok" \/ (w.new = <<>> /\ w.del = {}) THEN w
  ELSE
    LET r == FlushEntries(w.tx, w.del, w.held, w.new, <<>>)
        rows == {x \in r.rows : x.id \notin r.del}
    IN  IF r.err # "ok" THEN Rollback(w, r.err)
        ELSE [w EXCEPT !.tx = rows,
                       !.inTx = w.inTx \/ rows # w.tx \/ r.flushed # <<>> \/ r.del # {},
                       !.new = <<>>, !.del = {},
                       !.held = HeldAfter(w.held, r.flushed, r.del)]

\* Session.commit: flush, then make the transaction's rows the committed ones;
\* every object of the session is expired.
SessionCommit(w) ==
  LET f == Flush(Called(w))
  IN  IF f.err # "ok" THEN f
      ELSE [f EXCEPT !.db = f.tx, !.inTx = FALSE, !.held = {},
                     !.commits = f.commits + 1]

\* The registration of one instance with the unit of work.
Register(w, e) ==
  IF w.err # "ok" THEN w
  ELSE IF e = NullEntity THEN Raise(w, "UnmappedInstanceError")
  ELSE [w EXCEPT !.new = Append(w.new, e)]

\* Session.add
SessionAdd(w, e) == Register(Called(w), e)

RECURSIVE RegisterEach(_, _)
RegisterEach(w, es) ==
  IF es = <<>> THEN w ELSE RegisterEach(Register(w, Head(es)), Tail(es))

\* Session.add_all: one call that registers the instances in order and stops at
\* the first it cannot register, the earlier ones staying registered; None is
\* not iterable.
SessionAddAll(w, es) ==
  IF w.err # "ok" THEN w
  ELSE IF es.none THEN Raise(Called(w), "TypeError")
  ELSE RegisterEach(Called(w), es.items)

\* Session.delete: marks a persistent entity deleted.
SessionDelete(w, e) ==
  IF w.err # "ok" THEN w
  ELSE IF e = NullEntity THEN Raise(Called(w), "UnmappedInstanceError")
  ELSE IF e.st # "persistent" THEN Raise(Called(w), "InvalidRequestError")
  ELSE [Called(w) EXCEPT !.del = w.del \cup {e.id}]

----------------------------------------------------------------------------
\* Statements (sqlalchemy select / delete) and their execution.

\* select(self._orm) and delete(self._orm): every row, no ordering, no paging.
Select ==
  [where |-> [op |-> "all", ids |-> <<>>], order |-> <<>>,
   paged |-> FALSE, offset |-> 0, limit |-> 0]

\* statement.where(self._pk == id_)
WherePkEq(stmt, i) == [stmt EXCEPT !.where = [op |-> "eq", ids |-> <<i>>]]

\* statement.where(self._pk.in_(ids))
WherePkIn(stmt, ids) == [stmt EXCEPT !.where = [op |-> "in", ids |-> ids]]

\* A row satisfies the WHERE clause; a NULL in the comparison matches no row.
Matches(r, where) ==
  CASE where.op = "all" -> TRUE
    [] where.op = "eq" -> r.id = where.ids[1]
    [] where.op = "in" -> r.id \in Range(where.ids)

Matching(rows, stmt) == {r \in rows : Matches(r, stmt.where)}

\* The value a row is ordered by under one property.
DataOrd == [d \in Data |-> IF d = "a" THEN 1 ELSE 2]
KeyOf(r, property) == IF property = "id" THEN r.id ELSE DataOrd[r.data]

\* r1 comes strictly before r2 under the ORDER BY clauses, the first clause
\* deciding, the next one breaking its ties.
RECURSIVE Before(_, _, _)
Before(r1, r2, clauses) ==
  IF clauses = <<>> THEN FALSE
  ELSE
    LET c == Head(clauses)
        k1 == KeyOf(r1, c.property)
        k2 == KeyOf(r2, c.property)
    IN  IF k1 = k2 THEN Before(r1, r2, Tail(clauses))
        ELSE IF c.direction = "ASC" THEN k1 < k2 ELSE k1 > k2

Sorted(s, clauses) ==
  \A i, j \in 1 .. Len(s) : i < j => ~Before(s[j], s[i], clauses)

Perms(S) ==
  {p \in [1 .. Cardinality(S) -> S] : \A i, j \in DOMAIN p : p[i] = p[j] => i = j}

\* The orders in which the table may return the rows: the storage order (by
\* primary key) without ORDER BY, else any order the clauses allow (rows that
\* tie under every clause come in an order the database chooses).
Orderings(S, clauses) ==
  IF clauses = <<>>
    THEN {p \in Perms(S) : \A i, j \in DOMAIN p : i < j => p[i].id < p[j].id}
    ELSE {p \in Perms(S) : Sorted(p, clauses)}

Min(a, b) == IF a < b THEN a ELSE b

\* OFFSET and LIMIT, applied to the ordered rows.
Slice(s, stmt) ==
  IF stmt.paged THEN SubSeq(s, stmt.offset + 1, Min(Len(s), stmt.offset + stmt.limit))
  ELSE s

\* Result.unique(): the first occurrence of each row.
RECURSIVE Unique(_)
Unique(s) ==
  IF s = <<>> THEN <<>>
  ELSE LET init == Unique(SubSeq(s, 1, Len(s) - 1))
           x == s[Len(s)]
       IN  IF x \in Range(init) THEN init ELSE Append(init, x)

\* A database that cuts the page out of the stored rows and orders the page.
ExecuteSelect_slice_first(rows, stmt) ==
  UNION {Orderings(Range(Slice(p, stmt)), stmt.order) :
           p \in Orderings(Matching(rows, stmt), <<>>)}

\* The results the database may give for a SELECT: WHERE, ORDER BY, then
\* OFFSET / LIMIT, whatever the order in which the clauses were attached.
ExecuteSelect(rows, stmt) ==
  {Unique(Slice(p, stmt)) : p \in Orderings(Matching(rows, stmt), stmt.order)}

\* Session.execute of a DELETE statement: pending changes are flushed first,
\* and the loaded objects the criterion matches leave the session.
ExecuteDelete(w, stmt) ==
  LET f == Flush(Called(w))
  IN  IF f.err # "ok" THEN f
      ELSE [f EXCEPT !.tx = f.tx \ Matching(f.tx, stmt), !.inTx = TRUE,
                     !.held = f.held \ Matching(f.held, stmt)]

\* Session.execute of a SELECT statement flushes pending changes first.
AutoFlush(w) == Flush(Called(w))

\* The entity a fetched row gives: the object the session already holds under
\* that key, with the attributes it has, else a new object loaded from the row.
Entity(loaded, r) == IF r.id \in RowIds(loaded) THEN RowOf(loaded, r.id) ELSE r

\* .scalars().all() of fetched rows: the entities, which the session now holds.
Load(w, rs) ==
  LET es == [k \in 1 .. Len(rs) |-> Entity(w.held, rs[k])]
  IN  [w |-> [w EXCEPT !.held = w.held \cup Range(es)], ret |-> es, num |-> 0]

\* Session.refresh(entity): reloads the entity's row by its primary key.
SessionRefresh(w, i) ==
  IF w.err # "ok" THEN w
  ELSE IF i \notin RowIds(w.tx) THEN Raise(Called(w), "InvalidRequestError")
  ELSE [Called(w) EXCEPT !.held = {h \in w.held : h.id # i} \cup {RowOf(w.tx, i)}]

\* Session.get: the object the session holds loaded under that key, without a
\* statement; else a SELECT by primary key (None matches no row).
SessionGet(w, i) ==
  IF i \in RowIds(w.held) THEN [w |-> Called(w), ret |-> <<RowOf(w.held, i)>>, num |-> 0]
  ELSE LET f == AutoFlush(w)
       IN  IF f.err # "ok" \/ i \notin RowIds(f.tx) THEN [w |-> f, ret |-> <<>>, num |-> 0]
           ELSE Load(f, <<RowOf(f.tx, i)>>)

----------------------------------------------------------------------------
\* Arguments.

Orders == [property : Properties, direction : Directions]
NoSort == [none |-> TRUE, orders |-> <<>>]

\* None, or a Sort: its orders name a property once.
Sorts ==
  {NoSort} \cup
    {[none |-> FALSE, orders |-> o] :
       o \in {q \in SeqsUpTo(Orders, MaxOrders) :
                \A j, k \in 1 .. Len(q) : q[j].property = q[k].property => j = k}}

NoPageable == [none |-> TRUE, offset |-> 0, page_size |-> 0]
Pageables ==
  {NoPageable} \cup [none : {FALSE}, offset : 0 .. MaxOffset, page_size : 1 .. MaxPageSize]

HasNone(list) == list.none \/ \E k \in 1 .. Len(list.items) : list.items[k] = None
HasNullEntity(list) ==
  list.none \/ \E k \in 1 .. Len(list.items) : list.items[k] = NullEntity

----------------------------------------------------------------------------
\* CrudRepository and PagingRepository. A handler maps the world before the
\* call to the world after it; a handler that returns something maps it to
\* [w, ret, num]: the world, the rows returned and the number returned.

\* A constructor that refuses only a type without primary key.
init_nonempty(orm) == IF Len(orm) = 0 THEN "ValueError" ELSE "ok"

\* CrudRepository.__init__: the outcome of binding to a mapped type.
init(orm) == IF Len(orm) # 1 THEN "ValueError" ELSE "ok"

clear(w) == SessionCommit(ExecuteDelete(w, Select))

delete(w, entity) ==
  IF entity = NullEntity THEN Raise(w, "ValueError")
  ELSE SessionCommit(SessionDelete(w, entity))

RECURSIVE DeleteEach(_, _)
DeleteEach(w, es) ==
  IF es = <<>> THEN w ELSE DeleteEach(SessionDelete(w, Head(es)), Tail(es))

delete_all(w, entities) ==
  IF HasNullEntity(entities) THEN Raise(w, "ValueError")
  ELSE SessionCommit(DeleteEach(w, entities.items))

delete_all_by_id(w, ids) ==
  IF HasNone(ids) THEN Raise(w, "ValueError")
  ELSE ExecuteDelete(w, WherePkIn(Select, ids.items))

delete_by_id(w, id_) ==
  IF id_ = None THEN Raise(w, "ValueError")
  ELSE ExecuteDelete(w, WherePkEq(Select, id_))

\* A count that reads the committed rows, not the session's.
execute_count_committed(w, stmt) ==
  LET f == AutoFlush(w)
  IN  [w |-> f, ret |-> <<>>,
       num |-> IF f.err # "ok" THEN 0 ELSE Cardinality(Matching(f.db, stmt))]

\* _execute_count: SELECT count(pk) over the statement's rows.
execute_count(w, stmt) ==
  LET f == AutoFlush(w)
  IN  [w |-> f, ret |-> <<>>,
       num |-> IF f.err # "ok" THEN 0 ELSE Cardinality(Matching(f.tx, stmt))]

count(w) == execute_count(w, Select)

\* bool(count) is returned as 0 or 1.
exists_by_id(w, id_) ==
  IF id_ = None THEN [w |-> Raise(w, "ValueError"), ret |-> <<>>, num |-> 0]
  ELSE LET c == execute_count(w, WherePkEq(Select, id_))
       IN  [c EXCEPT !.num = IF c.num # 0 THEN 1 ELSE 0]

\* _with_ordering: [err, stmt]; getattr fails on a property the type lacks.
RECURSIVE Clauses(_)
Clauses(orders) ==
  IF orders = <<>> THEN [err |-> "ok", clauses |-> <<>>]
  ELSE IF Head(orders).property \notin {"id", "data"}
    THEN [err |-> "AttributeError", clauses |-> <<>>]
  ELSE LET rest == Clauses(Tail(orders))
       IN  [rest EXCEPT !.clauses = <<Head(orders)>> \o rest.clauses]

\* An ordering that ignores the direction and sorts ascending.
with_ordering_asc(stmt, sort) ==
  IF sort.none THEN [err |-> "ok", stmt |-> stmt]
  ELSE LET c == Clauses(sort.orders)
       IN  [err |-> c.err,
            stmt |-> IF c.err # "ok" THEN stmt
                     ELSE [stmt EXCEPT !.order =
                             [k \in 1 .. Len(c.clauses) |->
                                [c.clauses[k] EXCEPT !.direction = "ASC"]]]]

with_ordering(stmt, sort) ==
  IF sort.none THEN [err |-> "ok", stmt |-> stmt]
  ELSE LET c == Clauses(sort.orders)
       IN  [err |-> c.err,
            stmt |-> IF c.err # "ok" THEN stmt
                     ELSE [stmt EXCEPT !.order = stmt.order \o c.clauses]]

\* _with_paging: statement.offset(...).limit(...)
with_paging(stmt, pageable) ==
  [stmt EXCEPT !.paged = TRUE, !.offset = pageable.offset, !.limit = pageable.page_size]

\* session.execute(statement).unique().scalars().all(): the possible outcomes.
ExecuteAll(w, o) ==
  IF o.err # "ok" THEN {[w |-> Raise(w, o.err), ret |-> <<>>, num |-> 0]}
  ELSE LET f == AutoFlush(w)
       IN  IF f.err # "ok" THEN {[w |-> f, ret |-> <<>>, num |-> 0]}
           ELSE {Load(f, r) : r \in ExecuteSelect(f.tx, o.stmt)}

find_all(w, sort) == ExecuteAll(w, with_ordering(Select, sort))

find_all_by_id(w, ids, sort) ==
  ExecuteAll(w, with_ordering(WherePkIn(Select, ids), sort))

find_by_id(w, id_) == SessionGet(w, id_)

\* A save that adds new objects only and so loses the changes of a held one.
save_new_only(w, entity) ==
  SessionCommit(IF entity.st = "persistent" THEN w ELSE SessionAdd(w, entity))

\* save up to its commit (lines 149-150); its refresh is the step Refresh.
save(w, entity) == SessionCommit(SessionAdd(w, entity))

\* A save_all that commits after each entity.
RECURSIVE AddCommitEach(_, _)
AddCommitEach(w, es) ==
  IF es = <<>> THEN w
  ELSE AddCommitEach(SessionCommit(SessionAdd(w, Head(es))), Tail(es))

save_all_commit_each(w, entities) ==
  IF entities.none THEN Raise(Called(w), "TypeError")
  ELSE AddCommitEach(w, entities.items)

\* save_all up to its commit (lines 163-164); its loop is the step Refresh.
save_all(w, entities) == SessionCommit(SessionAddAll(w, entities))

\* The dummies fixture of the tests: one new object per key, added to the
\* repository's session and committed by the caller.
DummyList ==
  [none |-> FALSE,
   items |-> [k \in 1 .. MaxId |->
                [id |-> k, data |-> IF k = 1 THEN "a" ELSE "b", st |-> "transient"]]]

dummies(w) == SessionCommit(SessionAddAll(w, DummyList))

\* The clean_database fixture: DELETE of every row and commit, by the caller.
clean_database(w) == SessionCommit(ExecuteDelete(w, Select))

----------------------------------------------------------------------------
\* The state machine: one action per public operation of the repository (two
\* for the operations that call the session again after a first call has let
\* other sessions in: save and save_all after their commit, find_page after its
\* count), the caller's fixtures and close of its session, and another
\* session's committed writes.

\* What a call leaves in last: the operation, its outcome (err), the commits
\* it issued and the session methods it entered, what the action passed and got
\* (none: an argument was None or held None), at: the part of the call an
\* exception came from, clean: no other session committed during the call, and
\* the state before the call: stored, the committed rows; before, the rows the
\* repository's reads showed (the session's rows once its pending changes are
\* flushed); pending and loaded, the session's unflushed and loaded objects.
Last(op, w) ==
  [op |-> op, err |-> w.err, commits |-> w.commits, calls |-> w.calls,
   none |-> FALSE, id |-> None, ids |-> <<>>, ents |-> <<>>, sort |-> NoSort,
   pageable |-> NoPageable, ret |-> <<>>, num |-> 0, stmt |-> Select,
   at |-> "call", clean |-> TRUE,
   stored |-> db, before |-> Flush(World).tx, pending |-> new, loaded |-> held]

\* No call to speak of.
NoCall ==
  [Last("idle", World) EXCEPT !.stored = {}, !.before = {}, !.pending = <<>>,
                              !.loaded = {}]

\* No call in flight.
Idle == [pc |-> "idle", rec |-> NoCall, todo |-> <<>>, writes |-> 0]

\* The session and the table after the call; a call may leave MaxPending
\* objects unflushed in the unit of work.
Becomes(w) ==
  /\ RowIds(w.tx \cup w.db) \subseteq Ids
  /\ Len(w.new) + Cardinality(w.del) <= MaxPending
  /\ db' = w.db
  /\ tx' = w.tx
  /\ inTx' = w.inTx
  /\ new' = w.new
  /\ del' = w.del
  /\ held' = w.held

\* The entities a caller can hold: any new object, and the objects of the rows
\* its session sees that are not marked deleted.
Holdable(e) == e.st = "persistent" => (e.id \in RowIds(tx) /\ e.id \notin del)

\* One object is one state: two persistent entities of a list with the same
\* id are the same object.
EntityLists ==
  {l \in ListArgs({e \in Entities : Holdable(e)} \cup {NullEntity}) :
     \A j, k \in 1 .. Len(l.items) :
       (l.items[j].st = "persistent" /\ l.items[k].st = "persistent"
          /\ l.items[j].id = l.items[k].id) => l.items[j] = l.items[k]}

\* The caller is between two calls: the last result has been taken.
Quiet == last.op = "idle" /\ frame.pc = "idle"

Ready == repo = "ready" /\ Quiet

Init ==
  /\ pk_columns = <<>>
  /\ repo = "none"
  /\ db = {}
  /\ tx = {}
  /\ inTx = FALSE
  /\ new = <<>>
  /\ del = {}
  /\ held = {}
  /\ frame = Idle
  /\ last = NoCall

Construct ==
  /\ repo = "none"
  /\ Quiet
  /\ \E orm \in MappedTypes :
       /\ pk_columns' = IF init(orm) = "ok" THEN orm ELSE pk_columns
       /\ repo' = IF init(orm) = "ok" THEN "ready" ELSE "none"
       /\ last' = [Last("init", Raise(World, init(orm))) EXCEPT !.num = Len(orm)]
  /\ UNCHANGED <<db, tx, inTx, new, del, held, frame>>

Clear ==
  /\ Ready
  /\ LET w == clear(World) IN Becomes(w) /\ last' = Last("clear", w)
  /\ UNCHANGED <<pk_columns, repo, frame>>

Count ==
  /\ Ready
  /\ LET r == count(World)
     IN  Becomes(r.w) /\ last' = [Last("count", r.w) EXCEPT !.num = r.num]
  /\ UNCHANGED <<pk_columns, repo, frame>>

Delete ==
  /\ Ready
  /\ \E e \in {x \in Entities : Holdable(x)} \cup {NullEntity} :
       LET w == delete(World, e)
       IN  /\ Becomes(w)
           /\ last' = [Last("delete", w) EXCEPT !.ents = <<e>>, !.none = (e = NullEntity)]
  /\ UNCHANGED <<pk_columns, repo, frame>>

DeleteAll ==
  /\ Ready
  /\ \E es \in EntityLists :
       LET w == delete_all(World, es)
       IN  /\ Becomes(w)
           /\ last' = [Last("delete_all", w) EXCEPT !.ents = es.items,
                                                     !.none = HasNullEntity(es)]
  /\ UNCHANGED <<pk_columns, repo, frame>>

DeleteAllById ==
  /\ Ready
  /\ \E ids \in ListArgs(Ids \cup {None}) :
       LET w == delete_all_by_id(World, ids)
       IN  /\ Becomes(w)
           /\ last' = [Last("delete_all_by_id", w) EXCEPT !.ids = ids.items,
                                                           !.none = HasNone(ids)]
  /\ UNCHANGED <<pk_columns, repo, frame>>

DeleteById ==
  /\ Ready
  /\ \E i \in Ids \cup {None} :
       LET w == delete_by_id(World, i)
       IN  /\ Becomes(w)
           /\ last' = [Last("delete_by_id", w) EXCEPT !.id = i, !.none = (i = None)]
  /\ UNCHANGED <<pk_columns, repo, frame>>

ExistsById ==
  /\ Ready
  /\ \E i \in Ids \cup {None} :
       LET r == exists_by_id(World, i)
       IN  /\ Becomes(r.w)
           /\ last' = [Last("exists_by_id", r.w) EXCEPT !.id = i, !.num = r.num,
                                                       !.none = (i = None)]
  /\ UNCHANGED <<pk_columns, repo, frame>>

FindAll ==
  /\ Ready
  /\ \E sort \in Sorts : \E r \in find_all(World, sort) :
       /\ Becomes(r.w)
       /\ last' = [Last("find_all", r.w) EXCEPT !.sort = sort, !.ret = r.ret,
                      !.stmt = with_ordering(Select, sort).stmt]
  /\ UNCHANGED <<pk_columns, repo, frame>>

FindAllById ==
  /\ Ready
  /\ \E ids \in SeqsUpTo(Ids \cup {None}, MaxLen) : \E sort \in Sorts :
       \E r \in find_all_by_id(World, ids, sort) :
         /\ Becomes(r.w)
         /\ last' = [Last("find_all_by_id", r.w) EXCEPT !.ids = ids, !.sort = sort,
                        !.ret = r.ret,
                        !.stmt = with_ordering(WherePkIn(Select, ids), sort).stmt]
  /\ UNCHANGED <<pk_columns, repo, frame>>

FindById ==
  /\ Ready
  /\ \E i \in Ids \cup {None} :
       LET r == find_by_id(World, i)
       IN  /\ Becomes(r.w)
           /\ last' = [Last("find_by_id", r.w) EXCEPT !.id = i, !.ret = r.ret]
  /\ UNCHANGED <<pk_columns, repo, frame>>

\* A call that has committed goes on to refresh the entities it was given; one
\* that has raised is over.
Committed(rec, w) ==
  IF w.err # "ok" \/ rec.ents = <<>>
    THEN last' = rec /\ frame' = Idle
    ELSE /\ last' = NoCall
         /\ frame' = [pc |-> "committed", rec |-> rec, writes |-> 0,
                      todo |-> [k \in 1 .. Len(rec.ents) |-> rec.ents[k].id]]

\* save: session.add and session.commit.
Save ==
  /\ Ready
  /\ \E e \in {x \in Entities : Holdable(x)} \cup {NullEntity} :
       LET w == save(World, e)
       IN  /\ Becomes(w)
           /\ Committed([Last("save", w) EXCEPT !.ents = <<e>>,
                                               !.none = (e = NullEntity)], w)
  /\ UNCHANGED <<pk_columns, repo>>

\* save_all: session.add_all and session.commit.
SaveAll ==
  /\ Ready
  /\ \E es \in EntityLists :
       LET w == save_all(World, es)
       IN  /\ Becomes(w)
           /\ Committed([Last("save_all", w) EXCEPT !.ents = es.items,
                                                   !.none = HasNullEntity(es)], w)
  /\ UNCHANGED <<pk_columns, repo>>

\* session.refresh of the next entity of save or save_all; after the last one
\* the call returns the entities as the session holds them.
Refresh ==
  /\ frame.pc = "committed"
  /\ LET w == SessionRefresh(World, Head(frame.todo))
         rec == [frame.rec EXCEPT
                   !.err = w.err,
                   !.calls = frame.rec.calls + w.calls,
                   !.at = IF w.err # "ok" THEN "refresh" ELSE "call",
                   !.clean = (frame.writes = 0)]
     IN  /\ Becomes(w)
         /\ IF w.err # "ok"
              THEN last' = rec /\ frame' = Idle
            ELSE IF Len(frame.todo) = 1
              THEN /\ frame' = Idle
                   /\ last' = [rec EXCEPT !.ret = [k \in 1 .. Len(rec.ents) |->
                                                    RowOf(w.held, rec.ents[k].id)]]
            ELSE last' = last /\ frame' = [frame EXCEPT !.rec = rec, !.todo = Tail(frame.todo)]
  /\ UNCHANGED <<pk_columns, repo>>

\* find_page up to and including the count execution of _execute_page.
FindPageCount ==
  /\ Ready
  /\ \E pageable \in Pageables : \E sort \in Sorts :
       IF pageable.none
         THEN /\ last' = [Last("find_page", Raise(World, "ValueError")) EXCEPT
                           !.none = TRUE, !.sort = sort]
              /\ UNCHANGED <<db, tx, inTx, new, del, held, frame>>
         ELSE LET c == execute_count(World, Select)
                  rec == [Last("find_page", c.w) EXCEPT
                            !.pageable = pageable, !.sort = sort, !.num = c.num]
              IN  /\ Becomes(c.w)
                  /\ IF c.w.err # "ok"
                       THEN last' = rec /\ frame' = Idle
                       ELSE /\ last' = NoCall
                            /\ frame' = [pc |-> "counted", rec |-> rec, writes |-> 0,
                                         todo |-> <<>>]
  /\ UNCHANGED <<pk_columns, repo>>

\* The rest of _execute_page: paging, ordering, the content execution, Page.
FindPageContent ==
  /\ frame.pc = "counted"
  /\ LET o == with_ordering(with_paging(Select, frame.rec.pageable), frame.rec.sort)
     IN  \E r \in ExecuteAll(World, o) :
           /\ Becomes(r.w)
           /\ last' = [frame.rec EXCEPT
                         !.err = r.w.err,
                         !.calls = frame.rec.calls + r.w.calls,
                         !.ret = r.ret, !.stmt = o.stmt,
                         !.clean = (frame.writes = 0)]
  /\ frame' = Idle
  /\ UNCHANGED <<pk_columns, repo>>

\* The caller fills the table through the repository's session.
Dummies ==
  /\ Quiet
  /\ LET w == dummies(World)
     IN  Becomes(w) /\ last' = [Last("dummies", w) EXCEPT !.ents = DummyList.items]
  /\ UNCHANGED <<pk_columns, repo, frame>>

\* The caller empties the table through the repository's session.
CleanDatabase ==
  /\ Quiet
  /\ LET w == clean_database(World) IN Becomes(w) /\ last' = Last("clean_database", w)
  /\ UNCHANGED <<pk_columns, repo, frame>>

\* The caller closes its session.
SessionClose ==
  /\ Quiet
  /\ LET w == [Rollback(World, "ok") EXCEPT !.calls = 1]
     IN  Becomes(w) /\ last' = Last("close", w)
  /\ UNCHANGED <<pk_columns, repo, frame>>

\* Another session may commit: between two calls of the caller, or between two
\* session calls of a call in flight, MaxWrites times at most. A session that
\* holds uncommitted writes holds the table's write lock, and the writer waits.
Writes ==
  /\ ~inTx
  /\ \/ Quiet /\ frame' = frame
     \/ frame.pc # "idle" /\ frame.writes < MaxWrites
          /\ frame' = [frame EXCEPT !.writes = frame.writes + 1]

\* Another session commits an insert.
WriterInsert ==
  /\ Writes
  /\ \E r \in Rows :
       /\ r.id \notin RowIds(db)
       /\ db' = db \cup {r}
       /\ tx' = db \cup {r}
  /\ UNCHANGED <<pk_columns, repo, inTx, new, del, held, last>>

\* Another session commits a delete.
WriterDelete ==
  /\ Writes
  /\ \E r \in db :
       /\ db' = db \ {r}
       /\ tx' = db \ {r}
  /\ UNCHANGED <<pk_columns, repo, inTx, new, del, held, last>>

\* The caller takes the result of its call.
Return ==
  /\ last.op # "idle"
  /\ last' = NoCall
  /\ UNCHANGED <<pk_columns, repo, db, tx, inTx, new, del, held, frame>>

Next ==
  \/ Construct
  \/ Clear
  \/ Count
  \/ Delete
  \/ DeleteAll
  \/ DeleteAllById
  \/ DeleteById
  \/ ExistsById
  \/ FindAll
  \/ FindAllById
  \/ FindById
  \/ Save
  \/ SaveAll
  \/ Refresh
  \/ FindPageCount
  \/ FindPageContent
  \/ Dummies
  \/ CleanDatabase
  \/ SessionClose
  \/ WriterInsert
  \/ WriterDelete
  \/ Return

Spec == Init /\ [][Next]_vars

----------------------------------------------------------------------------
\* Properties.

Mutating ==
  {"clear", "delete", "delete_all", "delete_all_by_id", "delete_by_id", "save", "save_all"}

\* The primary keys of a sequence of rows or entities.
Keys(s) == [k \in 1 .. Len(s) |-> s[k].id]

\* r1 may come before r2 under the (property, direction) pairs: at each pair
\* that all earlier pairs leave tied, r1's value is not on the wrong side.
InOrder(r1, r2, orders) ==
  \A k \in 1 .. Len(orders) :
    (\A m \in 1 .. k - 1 : KeyOf(r1, orders[m].property) = KeyOf(r2, orders[m].property))
      => IF orders[k].direction = "ASC"
           THEN KeyOf(r1, orders[k].property) <= KeyOf(r2, orders[k].property)
           ELSE KeyOf(r1, orders[k].property) >= KeyOf(r2, orders[k].property)

\* The whole of rows as a sequence in the order the sort asks for (the storage
\* order, by id, when it asks for none).
FullyOrdered(p, rows, sort) ==
  /\ p \in Perms(rows)
  /\ \A i, j \in 1 .. Len(p) : i < j =>
       IF sort.orders = <<>> THEN p[i].id < p[j].id ELSE InOrder(p[i], p[j], sort.orders)

\* Each returned entity carries the attributes of its row, or is an object the
\* session held loaded before the call.
AsStoredOrHeld ==
  \A k \in 1 .. Len(last.ret) :
    last.ret[k] \in last.before \/ last.ret[k].id \in RowIds(last.loaded)

\* C1: constructing a repository succeeds if and only if the bound type has
\* exactly one primary-key column; with none or with several the constructor
\* raises its ValueError and no repository instance exists.
C1_ConstructionIffOnePk ==
  last.op = "init" =>
    /\ last.err = "ok" <=> last.num = 1
    /\ last.err = "ok" => repo = "ready" /\ Len(pk_columns) = 1
    /\ last.err # "ok" => last.err = "ValueError" /\ repo = "none"

\* C1: a type with a composite key has been refused.
C1_Witness ==
  last.op = "init" /\ last.num = 2 /\ last.err = "ValueError" /\ repo = "none"

\* C2: a call given None, or a collection holding None, ends with the
\* repository's ValueError before any session method is entered, and leaves
\* the rows and the session's unit of work as they were.
C2_NullArgumentRejectedFirst ==
  [][last'.none =>
       /\ last'.err = "ValueError"
       /\ last'.calls = 0
       /\ db' = db /\ tx' = tx /\ new' = new /\ del' = del]_vars

\* C3: every successful call of a mutating operation has issued exactly one
\* commit and leaves nothing uncommitted or pending in the session.
C3_OneCommitPerOperation ==
  (last.op \in Mutating /\ last.err = "ok") =>
    /\ last.commits = 1
    /\ ~inTx /\ tx = db /\ new = <<>> /\ del = {}

\* C4: called with ids that are not None, delete_all_by_id and delete_by_id
\* raise nothing and leave visible exactly the rows that were visible and whose
\* id is not among the given ones; so with absent ids the rows, and their
\* count, are unchanged.
C4_DeleteByIdRemovesExactlyThose ==
  LET given == IF last.op = "delete_by_id" THEN {last.id} ELSE Range(last.ids)
  IN  (last.op \in {"delete_by_id", "delete_all_by_id"} /\ ~last.none) =>
        /\ last.err = "ok"
        /\ tx = {r \in last.before : r.id \notin given}
        /\ count(World).num = Cardinality({r \in last.before : r.id \notin given})
        /\ (given \cap RowIds(last.before) = {}) => (tx = last.before)

\* The entity given to the last save is an unchanged object that the session
\* held loaded and whose row another session has changed since.
StaleArgument ==
  LET e == last.ents[1]
      row == [id |-> e.id, data |-> e.data]
  IN  e.st = "persistent" /\ row \in last.loaded /\ row \notin last.before

\* C5 as stated: once save(e) has returned, find_by_id(e.pk) gives an entity
\* with the attributes of the given one, and count() is the count before plus
\* one when the key was absent, the count before when it was present.
C5_SaveRoundTripUnderWriters ==
  (last.op = "save" /\ last.err = "ok") =>
    LET e == last.ents[1]
        found == find_by_id(World, e.id)
    IN  /\ found.w.err = "ok"
        /\ found.ret = <<[id |-> e.id, data |-> e.data]>>
        /\ count(World).num =
             Cardinality(last.before) + (IF e.id \in RowIds(last.before) THEN 0 ELSE 1)

\* C5: once save(e) has returned, find_by_id(e.pk) gives the entity save
\* returned; when no other session has committed during the call, count() is
\* the count before plus one when the key was absent, the count before when it
\* was present, and, unless e was a stale object given unchanged, the entity
\* has the attributes e was given with.
C5_SaveRoundTrip ==
  (last.op = "save" /\ last.err = "ok") =>
    LET e == last.ents[1]
        found == find_by_id(World, e.id)
    IN  /\ found.w.err = "ok"
        /\ found.ret = last.ret
        /\ (last.clean /\ ~StaleArgument) =>
             found.ret = <<[id |-> e.id, data |-> e.data]>>
        /\ last.clean =>
             count(World).num =
               Cardinality(last.before) + (IF e.id \in RowIds(last.before) THEN 0 ELSE 1)

\* C5: a save of an entity whose key was present has changed its row.
C5_Witness ==
  /\ last.op = "save" /\ last.err = "ok" /\ last.clean
  /\ last.ents[1].id \in RowIds(last.before)
  /\ RowOf(last.before, last.ents[1].id).data # last.ents[1].data
  /\ last.ret = <<[id |-> last.ents[1].id, data |-> last.ents[1].data]>>
  /\ Cardinality(last.before) = 2

\* C6: with no writer between its two executions, find_page returns as total
\* the count of all rows, whatever the offset and the page size, and as content
\* the entities of the rows of the fully ordered sequence from position offset
\* on, page_size of them at most: min(page_size, max(0, total - offset)) rows.
C6_PageIsSliceOfOrderedRows ==
  (last.op = "find_page" /\ last.err = "ok" /\ last.clean) =>
    LET off == last.pageable.offset
        size == last.pageable.page_size
        rest == IF last.num > off THEN last.num - off ELSE 0
    IN  /\ last.num = count(World).num
        /\ last.num = Cardinality(last.before)
        /\ Len(last.ret) = Min(size, rest)
        /\ \E p \in Perms(last.before) :
             /\ FullyOrdered(p, last.before, last.sort)
             /\ Keys(last.ret) = Keys(SubSeq(p, off + 1, off + Len(last.ret)))
        /\ AsStoredOrHeld

\* C6: a page of one row taken at offset 1 of two rows in descending id order.
C6_Witness ==
  /\ last.op = "find_page" /\ last.err = "ok" /\ last.clean
  /\ last.pageable.offset = 1 /\ last.pageable.page_size = 1
  /\ last.sort.orders = <<[property |-> "id", direction |-> "DESC"]>>
  /\ last.num = 2
  /\ Len(last.ret) = 1 /\ last.ret[1].id = 1

\* C7: find_all returns an entity for every row, once; with a sort the rows
\* come in the lexicographic order of its (property, direction) pairs, taken
\* in their declared order; without one the statement executed has no ordering
\* clause.
C7_FindAllOrdered ==
  (last.op = "find_all" /\ last.err = "ok") =>
    /\ Range(Keys(last.ret)) = RowIds(last.before)
    /\ Len(last.ret) = Cardinality(last.before)
    /\ \A i, j \in 1 .. Len(last.ret) :
         i < j => InOrder(RowOf(last.before, last.ret[i].id),
                          RowOf(last.before, last.ret[j].id), last.sort.orders)
    /\ last.stmt.order = last.sort.orders
    /\ last.sort.none => last.stmt.order = <<>>
    /\ AsStoredOrHeld

\* C7: two rows that tie on data, the first pair, came in descending id
\* order, the second pair.
C7_Witness ==
  /\ last.op = "find_all" /\ last.err = "ok"
  /\ last.sort.orders = <<[property |-> "data", direction |-> "ASC"],
                          [property |-> "id", direction |-> "DESC"]>>
  /\ Len(last.ret) = 2
  /\ last.ret \in Perms(last.before)
  /\ last.ret[1].data = last.ret[2].data
  /\ last.ret[1].id > last.ret[2].id

\* C8: find_all_by_id raises nothing and returns exactly the rows whose id is
\* among the given ones, each once, so no more rows than ids; the rows are
\* left as they were.
C8_FindAllByIdExactlyThose ==
  last.op = "find_all_by_id" =>
    /\ last.err = "ok"
    /\ Range(Keys(last.ret)) = {r.id : r \in {x \in last.before : x.id \in Range(last.ids)}}
    /\ Len(last.ret) = Cardinality(Range(Keys(last.ret)))
    /\ Len(last.ret) <= Len(last.ids)
    /\ db = last.stored /\ tx = last.before

\* C9: save_all and delete_all commit once, after every entity, when they
\* succeed; when an entity or the commit raises they have committed nothing:
\* the committed rows are those of before the call.
C9_BatchAllOrNothing ==
  last.op \in {"save_all", "delete_all"} =>
    /\ last.commits <= 1
    /\ last.err = "ok" => (last.commits = 1 /\ tx = db /\ ~inTx /\ new = <<>> /\ del = {})
    /\ (last.err # "ok" /\ last.at = "call") => (last.commits = 0 /\ db = last.stored)

\* C9: a save_all failed at its commit on its second entity, after a first
\* one that could have been stored.
C9_Witness ==
  /\ last.op = "save_all" /\ last.err = "IntegrityError" /\ last.at = "call"
  /\ Len(last.ents) = 2
  /\ last.ents[1].st = "transient" /\ last.ents[1].id \notin RowIds(last.before)
  /\ last.ents[2].id \in RowIds(last.before)
  /\ db = last.stored

\* C10: the total of find_page is the count at its first execution: it is the
\* number of rows at the second one unless another session has committed in
\* between, and then it may differ from it.
C10_TotalIsCountAtFirstExecution ==
  /\ (frame.pc = "counted" /\ frame.writes = 0) => frame.rec.num = Cardinality(tx)
  /\ (last.op = "find_page" /\ last.err = "ok" /\ last.num # Cardinality(tx)) => ~last.clean

\* C10: a page holds more rows than its total.
C10_Witness ==
  /\ last.op = "find_page" /\ last.err = "ok"
  /\ Len(last.ret) > last.num
  /\ Cardinality(tx) # last.num

====
